---- MODULE Spec2Model ----
(***************************************************************************)
(* A model of rust_src/src/keyboard.rs of remacs: the recursive-edit       *)
(* entry/exit functions (recursive_edit, exit_recursive_edit,              *)
(* abort_recursive_edit), the position lookups posn_at_point and           *)
(* posn_at_x_y, and the predicate lucid_event_type_list_p.                 *)
(*                                                                         *)
(* The host runtime the file binds to (the unwind stack, catch/throw, the  *)
(* command loop, the minibuffer, window geometry) is modelled only as far  *)
(* as the functions of keyboard.rs observe it.                             *)
(***************************************************************************)
EXTENDS Integers, Sequences, FiniteSets, TLC

VARIABLES
    command_loop_level,       \* remacs_sys::command_loop_level
    minibuf_level,            \* remacs_sys::minibuf_level
    interrupt_input_blocked,  \* remacs_sys::interrupt_input_blocked
    update_mode_lines,        \* remacs_sys::update_mode_lines
    current_buffer,           \* buffers::current_buffer()
    specpdl,                  \* the unwind stack (c_specpdl_index() is its length)
    loops,                    \* the command loops in progress, innermost last
    running,                  \* a command is executing in the innermost loop
    last,                     \* the last call of a function of keyboard.rs and how it ended
    arg,                      \* the arguments of the position function or predicate called
    out                       \* what that call produced

vars == <<command_loop_level, minibuf_level, interrupt_input_blocked,
          update_mode_lines, current_buffer, specpdl, loops, running, last,
          arg, out>>

editVars == <<command_loop_level, minibuf_level, interrupt_input_blocked,
              update_mode_lines, current_buffer, specpdl, loops, running, last>>

----------------------------------------------------------------------------
(* Bounds of the model. *)

\* the deepest nesting of command loops explored
MaxDepth == 3
\* the most unwind-stack entries a command registers before it calls out
MaxBind == 1
\* the highest value of interrupt_input_blocked explored
MaxBlocked == 1

----------------------------------------------------------------------------
(* The recursive-edit state machine. *)

Buffers == {"b1", "b2"}

\* the buffer shown in the selected window (w.contents)
contents == "b1"

\* the values a throw to `exit' carries: nil, t, or something else
Vals == {"nil", "t", "other"}

\* command_loop_level before the editor initialization calls recursive_edit
InitialLevel == 0 - 1

Globals ==
    [level |-> command_loop_level, mini |-> minibuf_level,
     buf |-> current_buffer, uml |-> update_mode_lines]

Top == loops[Len(loops)]

\* the unwind handler recursive_edit registers
recursive_edit_unwind(buffer, g) ==
    [g EXCEPT !.buf = IF buffer \in Buffers THEN buffer ELSE @,
              !.level = @ - 1,
              !.uml = 18]

\* the unwind handler the minibuffer registers
read_minibuf_unwind(g) == [g EXCEPT !.mini = @ - 1]

RunUnwind(e, g) ==
    CASE e.func = "recursive_edit_unwind" -> recursive_edit_unwind(e.arg, g)
      [] e.func = "read_minibuf_unwind" -> read_minibuf_unwind(g)
      [] OTHER -> g

\* unbind_to(count, Qnil): pop and run the entries above depth count, last first
RECURSIVE unbind_to(_, _, _)
unbind_to(count, pdl, g) ==
    IF Len(pdl) <= count
    THEN [pdl |-> pdl, g |-> g]
    ELSE unbind_to(count, SubSeq(pdl, 1, Len(pdl) - 1), RunUnwind(pdl[Len(pdl)], g))

Entry(f, a) == [func |-> f, arg |-> a]

\* record_unwind_protect(Some(function), arg)
record_unwind_protect(pdl, f, a) == Append(pdl, Entry(f, a))

\* The record of a call: what was called, how it ended for its caller (res),
\* what it threw or signalled, which command loop it ended and how, and the
\* counters as they were before the call.
Call(op, res, val, err, ended, frame, xlevel) ==
    [op |-> op, res |-> res, val |-> val, err |-> err,
     ended |-> ended, kind |-> frame.kind, elevel |-> frame.elevel,
     ecount |-> frame.count, xlevel |-> xlevel,
     level0 |-> command_loop_level, mini0 |-> minibuf_level,
     depth0 |-> Len(specpdl), frames0 |-> Len(loops)]

NoFrame == [kind |-> "none", elevel |-> 0, count |-> 0]

Idle == [op |-> "none", res |-> "none", val |-> "nil", err |-> "none",
         ended |-> "none", kind |-> "none", elevel |-> 0, ecount |-> 0,
         xlevel |-> 0, level0 |-> 0, mini0 |-> 0, depth0 |-> 0, frames0 |-> 0]

\* Install the globals and the unwind stack of u, a result of unbind_to.
Install(u) ==
    /\ command_loop_level' = u.g.level
    /\ minibuf_level' = u.g.mini
    /\ current_buffer' = u.g.buf
    /\ update_mode_lines' = u.g.uml
    /\ specpdl' = u.pdl

InitEdit ==
    /\ command_loop_level = InitialLevel
    /\ minibuf_level = 0
    /\ interrupt_input_blocked = 0
    /\ update_mode_lines = 0
    /\ current_buffer \in Buffers
    /\ specpdl = <<>>
    /\ loops = <<>>
    /\ running = FALSE
    /\ last = Idle

----------------------------------------------------------------------------
(* Non-local exits of the host runtime. *)

\* A result: the globals and unwind stack (u), the command loops, whether a
\* command is still executing, and what the call record says.
Result(u, lps, run, res, val, err, ended, frame, xlevel) ==
    [u |-> u, loops |-> lps, running |-> run, res |-> res, val |-> val,
     err |-> err, ended |-> ended, frame |-> frame, xlevel |-> xlevel]

\* An error or quit signalled while the unwind stack is pdl and the globals
\* are g, inside the command loops lps: the innermost of them handles it, after
\* the unwind stack is unwound to where that loop began.  Control is then at
\* that loop, and the command that was executing is over.
Signal(pdl, g, lps) == unbind_to(lps[Len(lps)].base, pdl, g)

\* recursive_edit_1, after its command loop has returned val: t makes it
\* quit, anything else makes it return to its caller.
recursive_edit_1_quits(val) == val = "t"

\* recursive_edit_1 returning: it unbinds what it bound itself
recursive_edit_1_return(f, pdl, g) == unbind_to(f.count1, pdl, g)

\* recursive_edit returning without its unbind_to
recursive_edit_tail_nounbind(f, pdl, g) == [pdl |-> pdl, g |-> g]

\* recursive_edit, after recursive_edit_1 has returned: unbind_to(count, Qnil)
recursive_edit_tail(f, pdl, g) == unbind_to(f.count, pdl, g)

\* the minibuffer reader, after recursive_edit_1 has returned
read_minibuf_tail(f, pdl, g) == unbind_to(f.count, pdl, g)

\* The innermost command loop ends: its catch of `exit' received val
\* (how = "throw") or an error left it (how = "signal").
EndLoop(how, val, res, err) ==
    LET f == Top
        outer == SubSeq(loops, 1, Len(loops) - 1)
        u0 == unbind_to(f.base, specpdl, Globals)
    IN  IF how = "throw" /\ ~recursive_edit_1_quits(val)
        THEN LET u1 == recursive_edit_1_return(f, u0.pdl, u0.g)
                 u2 == IF f.kind = "recursive_edit"
                       THEN recursive_edit_tail(f, u1.pdl, u1.g)
                       ELSE read_minibuf_tail(f, u1.pdl, u1.g)
             IN  Result(u2, outer, TRUE, res, val, err, "return", f, u2.g.level)
        ELSE LET ux == unbind_to(f.count, u0.pdl, u0.g)
                 u2 == Signal(u0.pdl, u0.g, outer)
             IN  Result(u2, outer, FALSE, res, val, err,
                        IF how = "throw" THEN "quit" ELSE "error", f, ux.g.level)

\* An error signalled by the executing command: the innermost loop handles it.
SignalError(val, err) ==
    Result(Signal(specpdl, Globals, loops), loops, FALSE, "error", val, err,
           "none", NoFrame, 0)

\* Fthrow(Qexit, val): to the catch of the innermost command loop when it
\* has one, and the error no-catch otherwise.
Fthrow(val) ==
    IF Top.catch
    THEN EndLoop("throw", val, "throw", "none")
    ELSE SignalError(val, "no-catch")

user_error(msg) == SignalError("nil", msg)

----------------------------------------------------------------------------
(* keyboard.rs: quit_recursive_edit, exit_recursive_edit, abort_recursive_edit *)

\* val.into(): a bool as a Lisp object
LispBool(val) == IF val THEN "t" ELSE "nil"

\* quit_recursive_edit with the level test off by one
quit_recursive_edit_ge(val) ==
    IF command_loop_level >= 0 \/ minibuf_level > 0
    THEN Fthrow(LispBool(val))
    ELSE user_error("No recursive edit is in progress")

\* quit_recursive_edit without the test of minibuf_level
quit_recursive_edit_nominibuf(val) ==
    IF command_loop_level > 0
    THEN Fthrow(LispBool(val))
    ELSE user_error("No recursive edit is in progress")

quit_recursive_edit(val) ==
    IF command_loop_level > 0 \/ minibuf_level > 0
    THEN Fthrow(LispBool(val))
    ELSE user_error("No recursive edit is in progress")

Apply(op, r) ==
    /\ Install(r.u)
    /\ loops' = r.loops
    /\ running' = r.running
    /\ last' = Call(op, r.res, r.val, r.err, r.ended, r.frame, r.xlevel)
    /\ UNCHANGED <<interrupt_input_blocked, arg, out>>

exit_recursive_edit ==
    /\ running
    /\ Apply("exit_recursive_edit", quit_recursive_edit(FALSE))

abort_recursive_edit ==
    /\ running
    /\ Apply("abort_recursive_edit", quit_recursive_edit(TRUE))

----------------------------------------------------------------------------
(* keyboard.rs: recursive_edit *)

Frame(kind, count, count1, base, catch, elevel) ==
    [kind |-> kind, count |-> count, count1 |-> count1, base |-> base,
     catch |-> catch, elevel |-> elevel]

\* temporarily_switch_to_single_kboard(frame): registers the restoring of the
\* keyboard configuration
temporarily_switch_to_single_kboard(pdl) ==
    record_unwind_protect(pdl, "restore_kboard_configuration", "nil")

\* recursive_edit_1(), up to its command loop: it binds its variables and
\* starts a command loop, which catches `exit' unless it is the top-level loop.
\* kind and count are its caller and the unwind-stack depth at the caller's
\* entry; elevel is command_loop_level at the caller's entry.
recursive_edit_1(kind, count, elevel, pdl, g) ==
    LET pdl1 == Append(pdl, Entry("specbind", "nil"))
        f == Frame(kind, count, Len(pdl), Len(pdl1),
                   g.level > 0 \/ g.mini > 0, elevel)
    IN  Result([pdl |-> pdl1, g |-> g], Append(loops, f), FALSE,
               "enter", "nil", "none", "none", NoFrame, 0)

\* recursive_edit registering recursive_edit_unwind only after
\* temporarily_switch_to_single_kboard
recursive_edit_body_lateunwind(kboard_error) ==
    LET count == Len(specpdl)
    IN  IF interrupt_input_blocked > 0
        THEN Result([pdl |-> specpdl, g |-> Globals], loops, running,
                    "return", "nil", "none", "none", NoFrame, 0)
        ELSE LET buf == IF command_loop_level >= 0 /\ contents # current_buffer
                        THEN current_buffer
                        ELSE "nil"
                 g1 == [Globals EXCEPT !.level = @ + 1, !.uml = 17]
                 me == [kind |-> "recursive_edit", elevel |-> command_loop_level,
                        count |-> count]
             IN  IF g1.level > 0 /\ kboard_error
                 THEN Result(Signal(specpdl, g1, loops), loops, FALSE,
                             "error", "nil", "kboard", "error", me,
                             unbind_to(count, specpdl, g1).g.level)
                 ELSE recursive_edit_1("recursive_edit", count, command_loop_level,
                          record_unwind_protect(
                              IF g1.level > 0
                              THEN temporarily_switch_to_single_kboard(specpdl)
                              ELSE specpdl,
                              "recursive_edit_unwind", buf),
                          g1)

\* recursive_edit(), from its entry to the command loop of recursive_edit_1;
\* kboard_error says whether temporarily_switch_to_single_kboard signals.
recursive_edit_body(kboard_error) ==
    LET count == Len(specpdl)
    IN  IF interrupt_input_blocked > 0
        THEN Result([pdl |-> specpdl, g |-> Globals], loops, running,
                    "return", "nil", "none", "none", NoFrame, 0)
        ELSE LET buf == IF command_loop_level >= 0 /\ contents # current_buffer
                        THEN current_buffer
                        ELSE "nil"
                 g1 == [Globals EXCEPT !.level = @ + 1, !.uml = 17]
                 pdl1 == record_unwind_protect(specpdl, "recursive_edit_unwind", buf)
                 me == [kind |-> "recursive_edit", elevel |-> command_loop_level,
                        count |-> count]
             IN  IF g1.level > 0 /\ kboard_error
                 THEN Result(Signal(pdl1, g1, loops), loops, FALSE,
                             "error", "nil", "kboard", "error", me,
                             unbind_to(count, pdl1, g1).g.level)
                 ELSE recursive_edit_1("recursive_edit", count, command_loop_level,
                                       IF g1.level > 0
                                       THEN temporarily_switch_to_single_kboard(pdl1)
                                       ELSE pdl1,
                                       g1)

\* recursive_edit is called by the editor initialization, and by commands.
recursive_edit ==
    /\ running \/ loops = <<>>
    /\ interrupt_input_blocked > 0 \/ Len(loops) < MaxDepth
    /\ \E kboard_error \in BOOLEAN :
          Apply("recursive_edit", recursive_edit_body(kboard_error))

----------------------------------------------------------------------------
(* The host runtime around keyboard.rs. *)

\* A command reads from the minibuffer: minibuf_level is incremented, its
\* decrement registered, and recursive_edit_1 entered.
read_minibuf ==
    /\ running
    /\ Len(loops) < MaxDepth
    /\ Apply("read_minibuf",
             recursive_edit_1("read_minibuf", Len(specpdl), command_loop_level,
                 record_unwind_protect(specpdl, "read_minibuf_unwind", "nil"),
                 [Globals EXCEPT !.mini = @ + 1]))

Env(u, run) ==
    /\ Install(u)
    /\ running' = run
    /\ last' = Idle
    /\ UNCHANGED <<interrupt_input_blocked, loops, arg, out>>

\* the innermost command loop starts a command
StartCommand ==
    /\ loops # <<>>
    /\ ~running
    /\ Env([pdl |-> specpdl, g |-> Globals], TRUE)

\* the executing command binds a variable or registers an unwind form
CommandBind ==
    /\ running
    /\ Len(specpdl) - Top.base < MaxBind
    /\ Env([pdl |-> Append(specpdl, Entry("specbind", "nil")), g |-> Globals], TRUE)

\* the executing command makes another buffer current
SetBuffer ==
    /\ running
    /\ \E b \in Buffers \ {current_buffer} :
          Env([pdl |-> specpdl, g |-> [Globals EXCEPT !.buf = b]], TRUE)

\* the executing command returns to its command loop
CommandDone ==
    /\ running
    /\ Env(unbind_to(Top.base, specpdl, Globals), FALSE)

\* block_input() and unblock_input()
BlockInput ==
    /\ running
    /\ interrupt_input_blocked < MaxBlocked
    /\ interrupt_input_blocked' = interrupt_input_blocked + 1
    /\ last' = Idle
    /\ UNCHANGED <<command_loop_level, minibuf_level, update_mode_lines,
                   current_buffer, specpdl, loops, running, arg, out>>

UnblockInput ==
    /\ interrupt_input_blocked > 0
    /\ interrupt_input_blocked' = interrupt_input_blocked - 1
    /\ last' = Idle
    /\ UNCHANGED <<command_loop_level, minibuf_level, update_mode_lines,
                   current_buffer, specpdl, loops, running, arg, out>>

\* the executing command evaluates (throw 'exit val)
LispThrow ==
    /\ running
    /\ \E val \in Vals : Apply("throw", Fthrow(val))

\* an error leaves the innermost recursive edit or minibuffer
LoopError ==
    /\ loops # <<>>
    /\ Top.catch
    /\ Apply("signal", EndLoop("signal", "nil", "error", "error"))

\* the executing command throws to top-level: every command loop but the
\* outermost ends
TopLevel ==
    /\ running
    /\ Install(unbind_to(loops[1].base, specpdl, Globals))
    /\ loops' = <<loops[1]>>
    /\ running' = FALSE
    /\ last' = Idle
    /\ UNCHANGED <<interrupt_input_blocked, arg, out>>

Init ==
    /\ InitEdit
    /\ arg = "none"
    /\ out = "none"

Next ==
    \/ recursive_edit
    \/ exit_recursive_edit
    \/ abort_recursive_edit
    \/ read_minibuf
    \/ StartCommand
    \/ CommandBind
    \/ SetBuffer
    \/ CommandDone
    \/ BlockInput
    \/ UnblockInput
    \/ LispThrow
    \/ LoopError
    \/ TopLevel

Spec == Init /\ [][Next]_vars

----------------------------------------------------------------------------
(* Properties of the recursive-edit functions. *)

QuitOps == {"exit_recursive_edit", "abort_recursive_edit"}

RecursiveEditsActive ==
    Cardinality({i \in DOMAIN loops : loops[i].kind = "recursive_edit"})

\* C1: exit_recursive_edit or abort_recursive_edit called while
\* command_loop_level <= 0 and minibuf_level <= 0 signals the user error
\* "No recursive edit is in progress", throws nothing (no command loop ends),
\* and leaves command_loop_level and minibuf_level as they were.
C1_NoRecursiveEdit ==
    (last.op \in QuitOps /\ last.level0 <= 0 /\ last.mini0 <= 0) =>
        /\ last.res = "error"
        /\ last.err = "No recursive edit is in progress"
        /\ last.ended = "none"
        /\ Len(loops) = last.frames0
        /\ command_loop_level = last.level0
        /\ minibuf_level = last.mini0

C1_Witness ==
    /\ last.op = "abort_recursive_edit"
    /\ last.level0 = 0
    /\ last.mini0 = 0
    /\ last.res = "error"
    /\ last.depth0 > Len(specpdl)

\* C2: with command_loop_level > 0 or minibuf_level > 0, exit_recursive_edit
\* throws to `exit' the value nil and abort_recursive_edit the value t; and
\* no call of either returns to its caller: it throws or it signals an error.
C2_ThrowsExit ==
    /\ (last.op = "exit_recursive_edit" /\ (last.level0 > 0 \/ last.mini0 > 0)) =>
           (last.res = "throw" /\ last.val = "nil")
    /\ (last.op = "abort_recursive_edit" /\ (last.level0 > 0 \/ last.mini0 > 0)) =>
           (last.res = "throw" /\ last.val = "t")
    /\ last.op \in QuitOps => last.res \in {"throw", "error"}

C2_Witness ==
    /\ last.op = "exit_recursive_edit"
    /\ last.level0 = 0
    /\ last.mini0 > 0
    /\ last.res = "throw"
    /\ last.val = "nil"

\* C3: a throw to `exit' made while the innermost command loop is that of a
\* recursive_edit invocation ends that invocation and no other.  With a value
\* other than t, recursive_edit returns to the command that called it: that
\* command is executing again, its unwind-stack entries still in place.  With
\* t, recursive_edit quits: no command is executing, and the command loop one
\* level up is where it began.
C3_ThrowEndsInnermost ==
    (last.res = "throw" /\ last.kind = "recursive_edit") =>
        /\ Len(loops) = last.frames0 - 1
        /\ loops # <<>>
        /\ last.val # "t" =>
              /\ last.ended = "return"
              /\ running
              /\ Len(specpdl) = last.ecount
        /\ last.val = "t" =>
              /\ last.ended = "quit"
              /\ ~running
              /\ Len(specpdl) = Top.base

C3_Witness ==
    /\ last.res = "throw"
    /\ last.kind = "recursive_edit"
    /\ last.val = "t"
    /\ last.ecount > Len(specpdl)
    /\ Len(loops) = 2

----------------------------------------------------------------------------
(* keyboard.rs: posn_at_x_y and posn_at_point *)

\* The number of bits of the model's i32.  The program's has 32, and its Lisp
\* integers have more; the model keeps the proportion, its Lisp integers
\* ranging past what its i32 holds.
I32Bits == 4
\* the largest coordinate a caller passes in the model
MaxCoord == 17

RECURSIVE Pow2(_)
Pow2(n) == IF n = 0 THEN 1 ELSE 2 * Pow2(n - 1)

I32Mod == Pow2(I32Bits)

\* `as i32' on a wider integer: the low bits, read as two's complement
as_i32(n) == ((n + I32Mod \div 2) % I32Mod) - I32Mod \div 2

\* whether the build checks integer overflow (it panics then) or wraps
OverflowChecks == arg.checked

\* a += b on i32
add_i32(a, b) ==
    IF a + b = as_i32(a + b)
    THEN [ok |-> TRUE, v |-> a + b]
    ELSE IF OverflowChecks
         THEN [ok |-> FALSE, v |-> 0]
         ELSE [ok |-> TRUE, v |-> as_i32(a + b)]

\* Lisp objects as the position functions see them
LispInt(n) == [t |-> "fixnum", n |-> n]
LispStr == [t |-> "string", n |-> 0]

Windows == {"w1", "w2", "wdead"}
Frames == {"F1", "F2", "Fdead"}
selected_window == "w1"
selected_frame == "F1"

\* the geometry the host reports for a live window
Geometry ==
    [w1 |-> [left_edge_x |-> 1, text_offset |-> 1, top_edge_y |-> 1, frame |-> "F1"],
     w2 |-> [left_edge_x |-> 2, text_offset |-> 0, top_edge_y |-> 3, frame |-> "F2"]]

left_edge_x(w) == Geometry[w].left_edge_x
window_box_left_offset(w) == Geometry[w].text_offset

\* w.frame_pixel_y(y): the window's top edge added to y
frame_pixel_y(w, y) == add_i32(y, Geometry[w].top_edge_y)

\* the outcomes of a position function
PosnError == [res |-> "error", frame |-> "none", x |-> 0, y |-> 0, via |-> "none"]
PosnPanic == [res |-> "panic", frame |-> "none", x |-> 0, y |-> 0, via |-> "none"]
PosnNil == [res |-> "nil", frame |-> "none", x |-> 0, y |-> 0, via |-> "none"]

\* make_lispy_position(frame, x, y, 0): the descriptor of frame pixel (x, y)
make_lispy_position(frame, x, y) ==
    [res |-> "posn", frame |-> frame, x |-> x, y |-> y, via |-> "none"]

\* window_frame_live_or_selected_with_action, with the closure of posn_at_x_y
\* as its action: nil stands for the selected window; on a live window the
\* action runs and the window's frame is the result; a live frame is the
\* result itself; anything else is an error.
window_frame_live_or_selected_with_action(frame_or_window, x, y, whole) ==
    LET object == IF frame_or_window = "nil" THEN selected_window ELSE frame_or_window
    IN  IF object \in Windows
        THEN IF object = "wdead"
             THEN PosnError
             ELSE LET x1 == add_i32(x, left_edge_x(object))
                      x2 == IF whole = "nil"
                            THEN add_i32(x1.v, window_box_left_offset(object))
                            ELSE x1
                      y1 == frame_pixel_y(object, y)
                  IN  IF x1.ok /\ x2.ok /\ y1.ok
                      THEN make_lispy_position(Geometry[object].frame, x2.v, y1.v)
                      ELSE PosnPanic
        ELSE IF object \in Frames \ {"Fdead"}
             THEN make_lispy_position(object, x, y)
             ELSE PosnError

posn_at_x_y(objx, objy, frame_or_window, whole) ==
    IF objx.t # "fixnum" \/ (objx.n # 0 - 1 /\ objx.n < 0)
    THEN PosnError
    ELSE IF objy.t # "fixnum" \/ objy.n < 0
         THEN PosnError
         ELSE window_frame_live_or_selected_with_action(
                  frame_or_window, as_i32(objx.n), as_i32(objy.n), whole)

\* it.next().map_or(0, ...): the i-th element of the list, or 0
NextOr0(tem, i) == IF i <= Len(tem) THEN tem[i] ELSE 0

\* the coordinates posn_at_point hands on: x, and y with the row's top added
\* when there is more than (x y) in the list and y is negative
PointX(tem) == NextOr0(tem, 1)
PointY(tem) ==
    IF Len(tem) > 2 /\ NextOr0(tem, 2) < 0
    THEN NextOr0(tem, 2) + NextOr0(tem, 3)
    ELSE NextOr0(tem, 2)

\* posn_at_point taking x = -1 for invisible too
posn_at_point_lt0(tem, window) ==
    IF tem = <<>>
    THEN PosnNil
    ELSE IF PointX(tem) < 0
         THEN PosnNil
         ELSE [posn_at_x_y(LispInt(PointX(tem)), LispInt(PointY(tem)), window, "nil")
                   EXCEPT !.via = "posn_at_x_y"]

\* posn_at_point, given tem, what Fpos_visible_in_window_p(pos, window, t)
\* returned: nil (the empty list) or a list of integers
posn_at_point(tem, window) ==
    IF tem = <<>>
    THEN PosnNil
    ELSE IF PointX(tem) < 0 - 1
         THEN PosnNil
         ELSE [posn_at_x_y(LispInt(PointX(tem)), LispInt(PointY(tem)), window, "nil")
                   EXCEPT !.via = "posn_at_x_y"]

\* what a caller passes as a coordinate, and what the visibility query reports
Coords == (0 - 2) .. MaxCoord
Objects == {LispInt(n) : n \in Coords} \cup {LispStr}
Visible == {<<>>}
             \cup {<<x, y>> : x \in (0 - 2) .. 1, y \in (0 - 2) .. 1}
             \cup {<<x, y, rtop, 0, 0, 0>> :
                      x \in (0 - 2) .. 1, y \in (0 - 2) .. 1, rtop \in 0 .. 2}

PosnArgs ==
    [fn : {"posn_at_x_y"}, objx : Objects, objy : Objects,
     frame_or_window : {"nil", "str"} \cup Windows \cup Frames,
     whole : {"nil", "t"}, tem : {<<>>}, checked : BOOLEAN]
    \cup
    [fn : {"posn_at_point"}, objx : {LispInt(0)}, objy : {LispInt(0)},
     frame_or_window : Windows \ {"wdead"},
     whole : {"nil"}, tem : Visible, checked : BOOLEAN]

PosnNone == [res |-> "none", frame |-> "none", x |-> 0, y |-> 0, via |-> "none"]

InitPosn ==
    /\ InitEdit
    /\ current_buffer = contents
    /\ arg \in PosnArgs
    /\ out = PosnNone

CallPosnAtXY ==
    /\ out.res = "none"
    /\ arg.fn = "posn_at_x_y"
    /\ out' = posn_at_x_y(arg.objx, arg.objy, arg.frame_or_window, arg.whole)
    /\ UNCHANGED <<editVars, arg>>

CallPosnAtPoint ==
    /\ out.res = "none"
    /\ arg.fn = "posn_at_point"
    /\ out' = posn_at_point(arg.tem, arg.frame_or_window)
    /\ UNCHANGED <<editVars, arg>>

NextPosn ==
    \/ CallPosnAtXY
    \/ CallPosnAtPoint

SpecPosn == InitPosn /\ [][NextPosn]_vars

----------------------------------------------------------------------------
(* Properties of the position functions. *)

PointCalled == arg.fn = "posn_at_point" /\ out.res # "none"
XYCalled == arg.fn = "posn_at_x_y" /\ out.res # "none"

\* the y posn_at_point hands to posn_at_x_y for the list tem
GlyphY(tem) ==
    IF Len(tem) > 2 /\ tem[2] < 0 THEN tem[2] + tem[3] ELSE tem[2]

\* the outcome of posn_at_x_y for the glyph of the list tem in window
GlyphPosn(tem, window) ==
    [posn_at_x_y(LispInt(tem[1]), LispInt(GlyphY(tem)), window, "nil")
        EXCEPT !.via = "posn_at_x_y"]

\* C4, as stated: posn_at_point returns nil, without invoking posn_at_x_y,
\* if the visibility query yields nil; otherwise it returns what posn_at_x_y
\* produces for the glyph's coordinates in the same window.
C4_Original ==
    PointCalled =>
        /\ arg.tem = <<>> => out = PosnNil
        /\ arg.tem # <<>> => out = GlyphPosn(arg.tem, arg.frame_or_window)

\* C4, amended: posn_at_point returns nil, without invoking posn_at_x_y, if
\* the visibility query yields nil and also if the x it reports is less
\* than -1.  Otherwise its outcome is that of posn_at_x_y, invoked once with
\* WHOLE nil for the glyph's coordinates in the same window: a descriptor on
\* that window's frame, or the error posn_at_x_y signals (a y that remains
\* negative).
C4_NilOrPosnAtXY ==
    PointCalled =>
        /\ (arg.tem = <<>> \/ arg.tem[1] < 0 - 1) => out = PosnNil
        /\ (arg.tem # <<>> /\ arg.tem[1] >= 0 - 1) =>
              /\ out = GlyphPosn(arg.tem, arg.frame_or_window)
              /\ out.res \in {"posn", "error", "panic"}
              /\ out.res = "error" <=> GlyphY(arg.tem) < 0
              /\ out.res = "posn" =>
                    out.frame = Geometry[arg.frame_or_window].frame

C4_Witness ==
    /\ PointCalled
    /\ arg.tem # <<>>
    /\ arg.tem[1] = 0 - 2
    /\ out = PosnNil

\* the coordinates C6 states for accepted X and Y
Accepted ==
    /\ arg.objx.t = "fixnum"
    /\ arg.objx.n >= 0 - 1
    /\ arg.objy.t = "fixnum"
    /\ arg.objy.n >= 0

TheWindow ==
    IF arg.frame_or_window = "nil" THEN selected_window ELSE arg.frame_or_window

\* C6: for accepted X and Y, posn_at_x_y hands to make_lispy_position, for a
\* window (nil being the selected one), x + left edge + text-area offset when
\* WHOLE is nil, x + left edge when it is not, and y + the window's top edge;
\* for a frame, x and y unchanged.  The sums are exact.
C6_ExactSums ==
    (XYCalled /\ Accepted) =>
        /\ TheWindow \in Windows \ {"wdead"} =>
              /\ out.res = "posn"
              /\ out.frame = Geometry[TheWindow].frame
              /\ out.x = arg.objx.n + Geometry[TheWindow].left_edge_x
                           + (IF arg.whole = "nil"
                              THEN Geometry[TheWindow].text_offset
                              ELSE 0)
              /\ out.y = arg.objy.n + Geometry[TheWindow].top_edge_y
        /\ TheWindow \in Frames \ {"Fdead"} =>
              /\ out.res = "posn"
              /\ out.frame = TheWindow
              /\ out.x = arg.objx.n
              /\ out.y = arg.objy.n

----------------------------------------------------------------------------
(* keyboard.rs: lucid_event_type_list_p *)

\* the longest chain of conses an EVENT has in the model
MaxLen == 3

Symbols == {"nil", "help-echo", "vertical-line", "mode-line", "header-line", "foo"}
\* a fixnum; a string, standing for every object neither a fixnum nor a symbol
Atoms == Symbols \cup {"1", "str"}

is_fixnum(elt) == elt = "1"
is_symbol(elt) == elt \in Symbols

\* An EVENT: an atom (cars empty, tail.atom the object itself), or a chain of
\* conses with the cars in order; the cdr of the last cons is the atom
\* tail.atom when tail.cyc = 0, and the tail.cyc-th cons of the chain (a
\* circular list) otherwise.
Events ==
    { [cars |-> c, tail |-> t] :
        c \in UNION {[1 .. n -> Atoms] : n \in 0 .. MaxLen},
        t \in [cyc : 0 .. MaxLen, atom : {"nil", "foo", "str"}] }

WellFormed(ev) ==
    /\ ev.tail.cyc <= Len(ev.cars)
    /\ ev.tail.cyc > 0 => ev.tail.atom = "nil"

IsCons(ev) == Len(ev.cars) > 0

\* the cons after the i-th, or 0 when the cdr of the i-th is not a cons
Cdr(ev, i) == IF i < Len(ev.cars) THEN i + 1 ELSE ev.tail.cyc

\* it.all(|elt| elt.is_fixnum() || elt.is_symbol()) followed by
\* it.rest().is_nil(), on the iterator from the i-th cons, neither end nor
\* circularity checked; seen holds the conses already visited, and visiting
\* one again means the iteration never ends.
RECURSIVE AllThenRest(_, _, _)
AllThenRest(ev, i, seen) ==
    IF i = 0
    THEN IF ev.tail.atom = "nil" THEN "true" ELSE "false"
    ELSE IF i \in seen
         THEN "diverges"
         ELSE IF ~(is_fixnum(ev.cars[i]) \/ is_symbol(ev.cars[i]))
              THEN "false"
              ELSE AllThenRest(ev, Cdr(ev, i), seen \cup {i})

\* lucid_event_type_list_p without the test of the terminator
lucid_event_type_list_p_noend(ev) ==
    IF ~IsCons(ev)
    THEN "false"
    ELSE IF ev.cars[1] \in {"help-echo", "vertical-line", "mode-line", "header-line"}
         THEN "false"
         ELSE IF \A i \in DOMAIN ev.cars : is_fixnum(ev.cars[i]) \/ is_symbol(ev.cars[i])
              THEN "true"
              ELSE "false"

\* lucid_event_type_list_p(event), event being None when EVENT is not a cons
lucid_event_type_list_p(ev) ==
    IF ~IsCons(ev)
    THEN "false"
    ELSE IF ev.cars[1] \in {"help-echo", "vertical-line", "mode-line", "header-line"}
         THEN "false"
         ELSE AllThenRest(ev, 1, {})

InitLucid ==
    /\ InitEdit
    /\ current_buffer = contents
    /\ arg \in {ev \in Events : WellFormed(ev)}
    /\ out = [res |-> "none"]

CallLucid ==
    /\ out.res = "none"
    /\ out' = [res |-> lucid_event_type_list_p(arg)]
    /\ UNCHANGED <<editVars, arg>>

NextLucid == CallLucid

SpecLucid == InitLucid /\ [][NextLucid]_vars

----------------------------------------------------------------------------
(* Properties of lucid_event_type_list_p. *)

LucidCalled == out.res # "none"

ElementsOk == \A i \in DOMAIN arg.cars : arg.cars[i] = "1" \/ arg.cars[i] \in Symbols
ProperList == IsCons(arg) /\ arg.tail.cyc = 0 /\ arg.tail.atom = "nil"
Circular == arg.tail.cyc > 0
ReservedHead ==
    arg.cars[1] \in {"help-echo", "vertical-line", "mode-line", "header-line"}

====
